---------------------------- MODULE Spec2Model ----------------------------
(***************************************************************************)
(* Model of the JSON-payload extractor of goyard (src/main.go):            *)
(*   extractJSONFromText  - recovers a JSON substring from assistant text  *)
(*   extractCarJSON       - locates the text in the provider envelope,     *)
(*                          extracts the JSON and pretty-prints it         *)
(* Byte strings are sequences of one-character strings.  Indices named as  *)
(* in the source (start, end) are 0-based like Go's; a TLA+ sequence is    *)
(* 1-based, so byte i of the source is s[i + 1] here.                      *)
(***************************************************************************)
EXTENDS Integers, Sequences, FiniteSets, TLC

(***************************************************************************)
(* Bounds of the explored inputs.                                          *)
(***************************************************************************)
MaxParts == 3
MaxItems == 2
MaxRuns == 2

(***************************************************************************)
(* Characters.                                                             *)
(***************************************************************************)
Q == "\""
BS == "\\"
\* the byte 0x60 (backtick); SANY does not lex that character inside a string,
\* so the model writes it as "^"
BT == "^"
NL == "\n"
SP == " "

Digits == <<"0", "1", "2", "3", "4", "5", "6", "7", "8", "9">>

IsDigit(c) == \E d \in DOMAIN Digits : Digits[d] = c

DigitVal(c) == (CHOOSE d \in DOMAIN Digits : Digits[d] = c) - 1

\* unicode.IsSpace on the characters of the model (strings.TrimSpace)
IsSpace(c) == c \in {SP, NL, "\t", "\r", "\f"}

\* the whitespace of the JSON grammar (encoding/json scanner)
IsJSONSpace(c) == c \in {SP, NL, "\t", "\r"}

\* the class \s of regexp
IsReSpace(c) == c \in {SP, NL, "\t", "\r", "\f"}

\* bytes below 0x20, which the JSON scanner rejects inside a string literal
IsControl(c) == c \in {NL, "\t", "\r", "\f"}

\* The characters of the model in ascending byte order.
Ascii ==
  <<"\t", NL, "\f", "\r", SP, Q, ",", "/", "0", "1", "2", "3", "4", "5", "6",
    "7", "8", "9", ":", "[", BS, "]", BT, "a", "b", "c", "d", "e", "f", "g",
    "h", "i", "j", "k", "l", "m", "n", "o", "p", "q", "r", "s", "t", "u", "v",
    "w", "x", "y", "z", "{", "}">>

Code(c) == CHOOSE i \in DOMAIN Ascii : Ascii[i] = c

(***************************************************************************)
(* Byte-string helpers.                                                    *)
(***************************************************************************)
\* s[from : to] of Go with 0-based from (inclusive) and to (exclusive)
Slice(s, from, to) == IF to <= from THEN <<>> ELSE SubSeq(s, from + 1, to)

RECURSIVE TrimLeft(_)
TrimLeft(s) ==
  IF s # <<>> /\ IsSpace(Head(s)) THEN TrimLeft(Tail(s)) ELSE s

RECURSIVE TrimRight(_)
TrimRight(s) ==
  IF s # <<>> /\ IsSpace(s[Len(s)])
  THEN TrimRight(SubSeq(s, 1, Len(s) - 1))
  ELSE s

\* a trim that forgets the trailing whitespace
TrimSpaceLeading(s) == TrimLeft(s)

\* strings.TrimSpace
TrimSpace(s) == TrimRight(TrimLeft(s))

\* does word w occur in s at 0-based offset i
HasAt(s, i, w) ==
  /\ i >= 0
  /\ i + Len(w) <= Len(s)
  /\ \A k \in 1..Len(w) : s[i + k] = w[k]

\* 0-based offset of the first occurrence of w in s at or after from, or -1
RECURSIVE IndexFrom(_, _, _)
IndexFrom(s, w, from) ==
  IF from + Len(w) > Len(s) THEN -1
  ELSE IF HasAt(s, from, w) THEN from
  ELSE IndexFrom(s, w, from + 1)

\* strings.IndexAny(s, "{["), 0-based, -1 when absent
RECURSIVE IndexAnyFrom(_, _, _)
IndexAnyFrom(s, chars, from) ==
  IF from >= Len(s) THEN -1
  ELSE IF s[from + 1] \in chars THEN from
  ELSE IndexAnyFrom(s, chars, from + 1)

IndexAny(s, chars) == IndexAnyFrom(s, chars, 0)

(***************************************************************************)
(* The JSON grammar as encoding/json scans it.  A parse result is          *)
(* [ok, next, val]: next is the 1-based position after the value, val the  *)
(* syntax tree [t, v] with object members kept in text order.  The number  *)
(* production is the unsigned integer one: the explored inputs put none of *)
(* '-', '.', 'e', 'E' next to a digit.  The escapes are those TLA+ strings *)
(* can name.                                                               *)
(***************************************************************************)
NoVal == [t |-> "none", v |-> 0]

Fail == [ok |-> FALSE, next |-> 0, val |-> NoVal]

Ok(n, x) == [ok |-> TRUE, next |-> n, val |-> x]

RECURSIVE SkipWS(_, _)
SkipWS(b, i) ==
  IF i <= Len(b) /\ IsJSONSpace(b[i]) THEN SkipWS(b, i + 1) ELSE i

IsEscape(c) == c \in {Q, BS, "/", "n", "t", "r", "f"}

Unescape(c) ==
  IF c = "n" THEN NL
  ELSE IF c = "t" THEN "\t"
  ELSE IF c = "r" THEN "\r"
  ELSE IF c = "f" THEN "\f"
  ELSE c

\* the string literal whose opening quote precedes position i
RECURSIVE ScanString(_, _, _)
ScanString(b, i, acc) ==
  IF i > Len(b) THEN Fail
  ELSE IF b[i] = Q THEN Ok(i + 1, [t |-> "str", v |-> acc])
  ELSE IF b[i] = BS
    THEN IF i + 1 > Len(b) \/ ~IsEscape(b[i + 1])
         THEN Fail
         ELSE ScanString(b, i + 2, Append(acc, Unescape(b[i + 1])))
  ELSE IF IsControl(b[i]) THEN Fail
  ELSE ScanString(b, i + 1, Append(acc, b[i]))

\* digits from position i on: [next, n]
RECURSIVE ScanDigits(_, _, _)
ScanDigits(b, i, n) ==
  IF i <= Len(b) /\ IsDigit(b[i])
  THEN ScanDigits(b, i + 1, 10 * n + DigitVal(b[i]))
  ELSE [next |-> i, n |-> n]

ScanNumber(b, i) ==
  IF b[i] = "0"
  THEN IF i + 1 <= Len(b) /\ IsDigit(b[i + 1])
       THEN Fail
       ELSE Ok(i + 1, [t |-> "num", v |-> 0])
  ELSE LET d == ScanDigits(b, i, 0) IN Ok(d.next, [t |-> "num", v |-> d.n])

ScanLiteral(b, i) ==
  IF HasAt(b, i - 1, <<"t", "r", "u", "e">>)
    THEN Ok(i + 4, [t |-> "lit", v |-> <<"t", "r", "u", "e">>])
  ELSE IF HasAt(b, i - 1, <<"f", "a", "l", "s", "e">>)
    THEN Ok(i + 5, [t |-> "lit", v |-> <<"f", "a", "l", "s", "e">>])
  ELSE IF HasAt(b, i - 1, <<"n", "u", "l", "l">>)
    THEN Ok(i + 4, [t |-> "lit", v |-> <<"n", "u", "l", "l">>])
  ELSE Fail

RECURSIVE ScanValue(_, _)
RECURSIVE ScanMembers(_, _, _)
RECURSIVE ScanElements(_, _, _)

\* a value that begins exactly at position i
ScanValue(b, i) ==
  IF i > Len(b) THEN Fail
  ELSE IF b[i] = "{"
    THEN LET j == SkipWS(b, i + 1) IN
         IF j <= Len(b) /\ b[j] = "}"
         THEN Ok(j + 1, [t |-> "obj", v |-> <<>>])
         ELSE ScanMembers(b, j, <<>>)
  ELSE IF b[i] = "["
    THEN LET j == SkipWS(b, i + 1) IN
         IF j <= Len(b) /\ b[j] = "]"
         THEN Ok(j + 1, [t |-> "arr", v |-> <<>>])
         ELSE ScanElements(b, j, <<>>)
  ELSE IF b[i] = Q THEN ScanString(b, i + 1, <<>>)
  ELSE IF IsDigit(b[i]) THEN ScanNumber(b, i)
  ELSE ScanLiteral(b, i)

\* the members of an object from the key at position i on
ScanMembers(b, i, acc) ==
  IF i > Len(b) \/ b[i] # Q THEN Fail
  ELSE LET k == ScanString(b, i + 1, <<>>) IN
    IF ~k.ok THEN Fail
    ELSE LET c == SkipWS(b, k.next) IN
      IF c > Len(b) \/ b[c] # ":" THEN Fail
      ELSE LET x == ScanValue(b, SkipWS(b, c + 1)) IN
        IF ~x.ok THEN Fail
        ELSE LET e == SkipWS(b, x.next)
                 acc2 == Append(acc, <<k.val.v, x.val>>)
             IN IF e > Len(b) THEN Fail
                ELSE IF b[e] = "}" THEN Ok(e + 1, [t |-> "obj", v |-> acc2])
                ELSE IF b[e] = "," THEN ScanMembers(b, SkipWS(b, e + 1), acc2)
                ELSE Fail

\* the elements of an array from the value at position i on
ScanElements(b, i, acc) ==
  LET x == ScanValue(b, i) IN
    IF ~x.ok THEN Fail
    ELSE LET e == SkipWS(b, x.next)
             acc2 == Append(acc, x.val)
         IN IF e > Len(b) THEN Fail
            ELSE IF b[e] = "]" THEN Ok(e + 1, [t |-> "arr", v |-> acc2])
            ELSE IF b[e] = "," THEN ScanElements(b, SkipWS(b, e + 1), acc2)
            ELSE Fail

\* the whole input is one value with optional whitespace around it
ScanDocument(b) ==
  LET x == ScanValue(b, SkipWS(b, 1)) IN
    IF x.ok /\ SkipWS(b, x.next) = Len(b) + 1 THEN x ELSE Fail

\* json.Unmarshal(b, &tmp) == nil for tmp interface{}: b is valid JSON
ValidJSON(b) == ScanDocument(b).ok


(***************************************************************************)
(* Decoded values.  json.Unmarshal into interface{} turns an object into a *)
(* Go map (no member order, the last of equal keys wins), an array into a  *)
(* slice; numbers, strings and literals keep their [t, v] form.            *)
(***************************************************************************)
RECURSIVE ToGo(_)
ToGo(x) ==
  IF x.t = "obj"
  THEN LET keys == {x.v[n][1] : n \in DOMAIN x.v}
           last(k) == CHOOSE n \in DOMAIN x.v :
                        /\ x.v[n][1] = k
                        /\ \A m \in DOMAIN x.v : x.v[m][1] = k => m <= n
       IN [t |-> "map", v |-> [k \in keys |-> ToGo(x.v[last(k)][2])]]
  ELSE IF x.t = "arr"
  THEN [t |-> "arr", v |-> [n \in DOMAIN x.v |-> ToGo(x.v[n])]]
  ELSE x

\* json.Unmarshal(b, &tmp) for tmp interface{}
UnmarshalAny(b) ==
  LET d == ScanDocument(b) IN
    IF d.ok THEN [err |-> FALSE, val |-> ToGo(d.val)]
    ELSE [err |-> TRUE, val |-> NoVal]

IsNull(x) == x.t = "lit" /\ x.v = <<"n", "u", "l", "l">>

NilMap == [t |-> "map", v |-> <<>>]

\* json.Unmarshal(b, &generic) for generic map[string]interface{}
UnmarshalMap(b) ==
  LET u == UnmarshalAny(b) IN
    IF u.err THEN [err |-> TRUE, val |-> NilMap]
    ELSE IF IsNull(u.val) THEN [err |-> FALSE, val |-> NilMap]
    ELSE IF u.val.t = "map" THEN [err |-> FALSE, val |-> u.val]
    ELSE [err |-> TRUE, val |-> NilMap]

(***************************************************************************)
(* json.Unmarshal into the typed struct apiResp (lines 195-204).  A null   *)
(* or an absent member leaves the zero value, members the struct does not  *)
(* name are ignored, and a value of the wrong JSON type is an              *)
(* UnmarshalTypeError.  The keys of the model are lower case, so a key     *)
(* names a field exactly or not at all.                                    *)
(***************************************************************************)
KOutput == <<"o", "u", "t", "p", "u", "t">>
KContent == <<"c", "o", "n", "t", "e", "n", "t">>
KType == <<"t", "y", "p", "e">>
KText == <<"t", "e", "x", "t">>

\* the member k of a decoded object; an absent member decodes like null
Member(m, k) ==
  IF k \in DOMAIN m.v THEN m.v[k] ELSE [t |-> "lit", v |-> <<"n", "u", "l", "l">>]

DecodeString(x) ==
  IF IsNull(x) THEN [err |-> FALSE, val |-> <<>>]
  ELSE IF x.t = "str" THEN [err |-> FALSE, val |-> x.v]
  ELSE [err |-> TRUE, val |-> <<>>]

DecodePart(x) ==
  LET ty == DecodeString(Member(x, KType))
      tx == DecodeString(Member(x, KText))
  IN IF IsNull(x) THEN [err |-> FALSE, val |-> [Type |-> <<>>, Text |-> <<>>]]
     ELSE IF x.t = "map"
     THEN [err |-> ty.err \/ tx.err, val |-> [Type |-> ty.val, Text |-> tx.val]]
     ELSE [err |-> TRUE, val |-> [Type |-> <<>>, Text |-> <<>>]]

\* content: a JSON array into a Go slice, part by part
DecodeParts(x) ==
  IF IsNull(x) THEN [err |-> FALSE, val |-> <<>>]
  ELSE IF x.t = "arr"
  THEN [err |-> \E n \in DOMAIN x.v : DecodePart(x.v[n]).err,
        val |-> [n \in DOMAIN x.v |-> DecodePart(x.v[n]).val]]
  ELSE [err |-> TRUE, val |-> <<>>]

DecodeItem(x) ==
  LET c == DecodeParts(Member(x, KContent))
  IN IF IsNull(x) THEN [err |-> FALSE, val |-> [Content |-> <<>>]]
     ELSE IF x.t = "map" THEN [err |-> c.err, val |-> [Content |-> c.val]]
     ELSE [err |-> TRUE, val |-> [Content |-> <<>>]]

\* output: a JSON array into a Go slice, item by item
DecodeItems(x) ==
  IF IsNull(x) THEN [err |-> FALSE, val |-> <<>>]
  ELSE IF x.t = "arr"
  THEN [err |-> \E n \in DOMAIN x.v : DecodeItem(x.v[n]).err,
        val |-> [n \in DOMAIN x.v |-> DecodeItem(x.v[n]).val]]
  ELSE [err |-> TRUE, val |-> <<>>]

\* json.Unmarshal(respBytes, &apiResp): [err, val], val being apiResp.Output
UnmarshalTyped(b) ==
  LET u == UnmarshalAny(b)
      o == DecodeItems(Member(u.val, KOutput))
  IN IF u.err THEN [err |-> TRUE, val |-> <<>>]
     ELSE IF IsNull(u.val) THEN [err |-> FALSE, val |-> <<>>]
     ELSE IF u.val.t = "map" THEN o
     ELSE [err |-> TRUE, val |-> <<>>]

\* lines 260-265: the inner loop over out.Content from part j on
RECURSIVE ContentLoop(_, _)
ContentLoop(content, j) ==
  IF j > Len(content) THEN <<>>
  ELSE IF TrimSpace(content[j].Text) # <<>> THEN content[j].Text
  ELSE ContentLoop(content, j + 1)

\* an outer loop that stops after the first item
OutputLoopFirstItem(output, i) ==
  IF i > Len(output) THEN <<>> ELSE ContentLoop(output[i].Content, 1)

\* lines 259-269: the outer loop over apiResp.Output from item i on
RECURSIVE OutputLoop(_, _)
OutputLoop(output, i) ==
  IF i > Len(output) THEN <<>>
  ELSE LET r == ContentLoop(output[i].Content, 1) IN
    IF r # <<>> THEN r ELSE OutputLoop(output, i + 1)

(***************************************************************************)
(* walk (lines 212-240).  A Go map is ranged over in an unspecified order  *)
(* that may differ from one range to the next, so walk has a set of        *)
(* possible outcomes: whether a member holds a match does not depend on    *)
(* the order, and any member that holds one can be the first one ranged    *)
(* over.  A slice is ranged over in index order.  The empty set is found   *)
(* left empty.                                                             *)
(***************************************************************************)
SetMin(S) == CHOOSE x \in S : \A y \in S : x <= y

SetMax(S) == CHOOSE x \in S : \A y \in S : x >= y

RECURSIVE WalkOutcomes(_)
WalkOutcomes(g) ==
  IF g.t = "map"
  THEN UNION {IF k = KText /\ g.v[k].t = "str" /\ TrimSpace(g.v[k].v) # <<>>
              THEN {g.v[k].v}
              ELSE WalkOutcomes(g.v[k]) : k \in DOMAIN g.v}
  ELSE IF g.t = "arr"
  THEN LET hits == {n \in DOMAIN g.v : WalkOutcomes(g.v[n]) # {}} IN
         IF hits = {} THEN {} ELSE WalkOutcomes(g.v[SetMin(hits)])
  ELSE {}

(***************************************************************************)
(* json.MarshalIndent(tmp, "", "  ") (lines 253, 285): map keys are        *)
(* written in ascending byte order, numbers in decimal, strings quoted and *)
(* escaped, and every member or element on a line of its own.              *)
(***************************************************************************)
RECURSIVE KeyLess(_, _)
KeyLess(a, b) ==
  IF b = <<>> THEN FALSE
  ELSE IF a = <<>> THEN TRUE
  ELSE IF Head(a) # Head(b) THEN Code(Head(a)) < Code(Head(b))
  ELSE KeyLess(Tail(a), Tail(b))

\* keys written from the largest down
NextKeyDescending(keys) ==
  CHOOSE k \in keys : \A o \in keys : o = k \/ KeyLess(o, k)

\* the next key MarshalIndent writes among the keys left
NextKey(keys) == CHOOSE k \in keys : \A o \in keys : o = k \/ KeyLess(k, o)

RECURSIVE SortKeys(_)
SortKeys(keys) ==
  IF keys = {} THEN <<>>
  ELSE LET k == NextKey(keys) IN <<k>> \o SortKeys(keys \ {k})

RECURSIVE FormatNat(_)
FormatNat(n) ==
  IF n < 10 THEN <<Digits[n + 1]>>
  ELSE Append(FormatNat(n \div 10), Digits[(n % 10) + 1])

EscapeChar(c) ==
  IF c = Q THEN <<BS, Q>>
  ELSE IF c = BS THEN <<BS, BS>>
  ELSE IF c = NL THEN <<BS, "n">>
  ELSE IF c = "\r" THEN <<BS, "r">>
  ELSE IF c = "\t" THEN <<BS, "t">>
  ELSE IF c = "\f" THEN <<BS, "f">>
  ELSE <<c>>

RECURSIVE EscapeString(_)
EscapeString(str) ==
  IF str = <<>> THEN <<>>
  ELSE EscapeChar(Head(str)) \o EscapeString(Tail(str))

Quoted(str) == <<Q>> \o EscapeString(str) \o <<Q>>

RECURSIVE Pad(_)
Pad(d) == IF d = 0 THEN <<>> ELSE <<SP, SP>> \o Pad(d - 1)

RECURSIVE MarshalValue(_, _)
RECURSIVE MarshalMembers(_, _, _)
RECURSIVE MarshalElements(_, _, _)

MarshalValue(g, d) ==
  IF g.t = "map"
  THEN IF DOMAIN g.v = {} THEN <<"{", "}">>
       ELSE <<"{", NL>> \o MarshalMembers(g, SortKeys(DOMAIN g.v), d + 1)
            \o <<NL>> \o Pad(d) \o <<"}">>
  ELSE IF g.t = "arr"
  THEN IF g.v = <<>> THEN <<"[", "]">>
       ELSE <<"[", NL>> \o MarshalElements(g.v, 1, d + 1)
            \o <<NL>> \o Pad(d) \o <<"]">>
  ELSE IF g.t = "str" THEN Quoted(g.v)
  ELSE IF g.t = "num" THEN FormatNat(g.v)
  ELSE g.v

MarshalMembers(g, keys, d) ==
  LET k == Head(keys)
      line == Pad(d) \o Quoted(k) \o <<":", SP>> \o MarshalValue(g.v[k], d)
  IN IF Len(keys) = 1 THEN line
     ELSE line \o <<",", NL>> \o MarshalMembers(g, Tail(keys), d)

MarshalElements(items, n, d) ==
  LET line == Pad(d) \o MarshalValue(items[n], d)
  IN IF n = Len(items) THEN line
     ELSE line \o <<",", NL>> \o MarshalElements(items, n + 1, d)

MarshalIndent(g) == MarshalValue(g, 0)

(***************************************************************************)
(* The fence pattern of extractJSONFromText: three backticks, an optional  *)
(* tag json followed by whitespace, a lazy capture (dot matches newline),  *)
(* three backticks.  Leftmost-first matching: the match starts at the      *)
(* first fence, takes the tag and the whitespace after it when they        *)
(* follow, and the capture runs to the next fence.  Neither the tag nor    *)
(* whitespace holds a backtick, so there is a match exactly when a closing *)
(* fence follows the first one.                                            *)
(***************************************************************************)
Fence == <<BT, BT, BT>>

JsonTag == <<"j", "s", "o", "n">>

RECURSIVE SkipReSpace(_, _)
SkipReSpace(s, k) ==
  IF k < Len(s) /\ IsReSpace(s[k + 1]) THEN SkipReSpace(s, k + 1) ELSE k

\* reFence.FindStringSubmatch(s): inner is m[1]; from and to are the 0-based
\* offsets at which the whole match m[0] begins and ends (exclusive)
FindFence(s) ==
  LET open == IndexFrom(s, Fence, 0)
      body == IF HasAt(s, open + 3, JsonTag)
              THEN SkipReSpace(s, open + 7)
              ELSE open + 3
      close == IndexFrom(s, Fence, body)
  IN IF open = -1 \/ close = -1
     THEN [found |-> FALSE, inner |-> <<>>, from |-> -1, to |-> -1]
     ELSE [found |-> TRUE, inner |-> Slice(s, body, close),
           from |-> open, to |-> close + 3]

\* the closing bracket test of the scan loop
ClosesAt(s, st, e) ==
  \/ s[e + 1] = "}" /\ s[st + 1] = "{"
  \/ s[e + 1] = "]" /\ s[st + 1] = "["

\* a scan that starts one byte short of the last one
FirstEndShort(s) == Len(s) - 2

\* the first value of end in the scan loop
FirstEnd(s) == Len(s) - 1

\* the loop's step, end--
NextEnd(e) == e - 1

(***************************************************************************)
(* Error values.                                                           *)
(***************************************************************************)
Nil == "nil"
ErrNoStart == "no JSON object/array start found in text"
ErrNoSubstring == "couldn't extract valid JSON substring from assistant text"
ErrParse == "failed to parse OpenAI response"
ErrNoTextGeneric == "no output text found in response (generic parse)"
ErrNoTextTyped ==
  "no output content with text found in response (maybe only reasoning entries present)"
ErrExtract == "failed to extract JSON from assistant text"
ErrInvalid == "assistant text does not contain valid JSON"

(***************************************************************************)
(* Explored assistant texts: up to MaxParts pieces from a pool of JSON     *)
(* values, fences, prose, stray brackets and whitespace.                   *)
(***************************************************************************)
ObjA == <<"{", Q, "a", Q, ":", "1", "}">>
Arr2 == <<"[", "2", "]">>
FenceJson == Fence \o JsonTag \o <<NL>>
Prose == <<"x", SP>>
BrokenFence == Fence \o <<"{", "x">> \o Fence
Blank == <<SP, NL>>
FencedString == <<Q>> \o Fence \o <<"1">> \o Fence \o <<Q>>

Pool ==
  {ObjA, Arr2, Fence, FenceJson, Prose, BrokenFence, <<"{">>, <<"}">>, <<"[">>,
   <<"1">>, FencedString, Blank}

RECURSIVE Concat(_)
Concat(ps) == IF ps = <<>> THEN <<>> ELSE Head(ps) \o Concat(Tail(ps))

Texts == {Concat(ps) : ps \in UNION {[1..n -> Pool] : n \in 0..MaxParts}}

(***************************************************************************)
(* Explored envelopes: the bytes of JSON documents built from syntax       *)
(* trees, plus bytes that are not JSON.  Keys are unique within an object. *)
(***************************************************************************)
Str(chars) == [t |-> "str", v |-> chars]
Num(n) == [t |-> "num", v |-> n]
Arr(items) == [t |-> "arr", v |-> items]
Obj(members) == [t |-> "obj", v |-> members]
Null == [t |-> "lit", v |-> <<"n", "u", "l", "l">>]

\* the compact JSON text of a syntax tree, members in the order listed
RECURSIVE JSONText(_)
RECURSIVE JSONList(_, _)
JSONText(x) ==
  IF x.t = "obj" THEN <<"{">> \o JSONList(x, 1) \o <<"}">>
  ELSE IF x.t = "arr" THEN <<"[">> \o JSONList(x, 1) \o <<"]">>
  ELSE IF x.t = "str" THEN Quoted(x.v)
  ELSE IF x.t = "num" THEN FormatNat(x.v)
  ELSE x.v

JSONList(x, n) ==
  IF n > Len(x.v) THEN <<>>
  ELSE (IF x.t = "obj"
        THEN Quoted(x.v[n][1]) \o <<":">> \o JSONText(x.v[n][2])
        ELSE JSONText(x.v[n]))
       \o (IF n < Len(x.v) THEN <<",">> ELSE <<>>)
       \o JSONList(x, n + 1)

TWhole == <<"{", Q, "b", Q, ":", "2", ",", Q, "a", Q, ":", "1", "}">>
TFence == FenceJson \o Arr2 \o <<NL>> \o Fence
TScan == Prose \o ObjA \o <<SP, "}">>
TNoStart == <<"n", "o">>
TScanFail == <<"{", "x">>
TBlank == <<SP, SP>>
TExample ==
  <<SP, SP, "{", Q, "o", "k", Q, ":", "t", "r", "u", "e", "}", SP, SP>>

KId == <<"i", "d">>
KNote == <<"n", "o", "t", "e">>
KWrapper == <<"w", "r", "a", "p", "p", "e", "r">>
KDeep == <<"d", "e", "e", "p">>

Part(txt) == Obj(<<<<KType, Str(<<"o">>)>>, <<KText, Str(txt)>>>>)
BarePart(txt) == Obj(<<<<KText, Str(txt)>>>>)
Content(parts) == Obj(<<<<KContent, Arr(parts)>>>>)
Reasoning == Obj(<<<<KType, Str(<<"r">>)>>>>)

Items ==
  {Reasoning,
   Content(<<>>),
   Content(<<Reasoning, Part(TBlank)>>),
   Content(<<Part(TWhole)>>),
   Content(<<BarePart(<<>>), Part(TFence)>>),
   Content(<<Part(TScan), BarePart(TWhole)>>),
   Content(<<Part(TNoStart)>>),
   Content(<<Part(TScanFail)>>)}

TypedEnvelopes ==
  {Obj(<<<<KId, Str(<<"r">>)>>, <<KOutput, Arr(items)>>>>) :
     items \in UNION {[1..n -> Items] : n \in 0..MaxItems}}

GenericTexts == {TExample, TWhole, TNoStart}

OtherEnvelopes ==
  UNION {
    {Obj(<<<<KWrapper,
             Obj(<<<<KDeep,
                     Arr(<<Obj(<<<<KNote, Str(<<"x">>)>>>>),
                           BarePart(t1)>>)>>>>)>>>>),
     Obj(<<<<KOutput, Num(5)>>, <<<<"a">>, BarePart(t1)>>,
           <<<<"b">>, BarePart(t2)>>>>),
     Obj(<<<<KOutput, BarePart(t1)>>>>),
     Obj(<<<<KOutput, Arr(<<Content(<<Obj(<<<<KText, Num(7)>>>>)>>)>>)>>,
           <<KText, Str(t1)>>>>),
     Obj(<<<<KOutput, Num(7)>>, <<KText, Str(TBlank)>>,
           <<<<"z">>, Arr(<<Num(1), Obj(<<<<KText, BarePart(t1)>>>>)>>)>>>>),
     Arr(<<BarePart(t1)>>)} : t1 \in GenericTexts, t2 \in GenericTexts}
  \cup {Num(5), Str(<<"x">>), Null, Obj(<<>>), Obj(<<<<KOutput, Null>>>>),
        Obj(<<<<KOutput, Num(5)>>, <<KNote, Str(<<"x">>)>>>>)}

NotJSON == {<<>>, <<"{", Q, "o", Q, ":">>, <<"n", "o">>}

Envelopes ==
  {JSONText(e) : e \in TypedEnvelopes \cup OtherEnvelopes} \cup NotJSON

(***************************************************************************)
(* State.                                                                  *)
(***************************************************************************)
VARIABLES
  pc,         \* position in extractCarJSON / extractJSONFromText
  respBytes,  \* the argument of extractCarJSON
  branch,     \* the branch of the test at line 204 taken: "typed" (err == nil)
              \* or "generic"; "none" before it, "alone" when
              \* extractJSONFromText is run on its own
  apiResp,    \* apiResp.Output after the typed parse
  generic,    \* generic after the untyped parse
  rawText,    \* rawText (found, in the generic branch)
  clean,      \* the returned bytes
  err,        \* the returned error
  run,        \* how many times the handler has called extractCarJSON
  prev,       \* what the previous call on the same bytes returned
  text,       \* the argument s of extractJSONFromText as passed
  s,          \* the local s after strings.TrimSpace
  start,      \* start of strategy 3
  end,        \* loop variable end of strategy 3
  jsonStr,    \* the string extractJSONFromText returns
  xerr,       \* the error extractJSONFromText returns
  strat       \* which strategy produced the return (0: none)

cvars == <<respBytes, branch, apiResp, generic, rawText, clean, err, run, prev>>

tvars == <<text, s, start, end, jsonStr, xerr, strat>>

vars == <<pc, cvars, tvars>>

(***************************************************************************)
(* extractJSONFromText (lines 156-191).                                    *)
(***************************************************************************)
Return(str, e, by) ==
  /\ jsonStr' = str
  /\ xerr' = e
  /\ strat' = by
  /\ pc' = "x_ret"

\* a search narrowed to the region after the fence
StartAfterFence(str) ==
  LET m == FindFence(str) IN
    IF m.found THEN IndexAnyFrom(str, {"{", "["}, m.to)
    ELSE IndexAny(str, {"{", "["})

\* line 176
StartOf(str) == IndexAny(str, {"{", "["})

\* lines 157-163: trim, and strategy 1
WholeText ==
  /\ pc = "x_whole"
  /\ LET t == TrimSpace(text) IN
       /\ s' = t
       /\ IF ValidJSON(t)
          THEN Return(t, Nil, 1)
          ELSE pc' = "x_fence" /\ UNCHANGED <<jsonStr, xerr, strat>>
  /\ UNCHANGED <<text, start, end, cvars>>

\* a strategy 2 that gives up when the fenced content is not JSON
FencedBlockRejects ==
  /\ pc = "x_fence"
  /\ LET m == FindFence(s)
         candidate == TrimSpace(m.inner)
     IN IF m.found /\ ValidJSON(candidate)
        THEN Return(candidate, Nil, 2)
        ELSE IF m.found
        THEN Return(<<>>, ErrNoSubstring, 0)
        ELSE pc' = "x_start" /\ UNCHANGED <<jsonStr, xerr, strat>>
  /\ UNCHANGED <<text, s, start, end, cvars>>

\* lines 165-173: strategy 2
FencedBlock ==
  /\ pc = "x_fence"
  /\ LET m == FindFence(s)
         candidate == TrimSpace(m.inner)
     IN IF m.found /\ ValidJSON(candidate)
        THEN Return(candidate, Nil, 2)
        ELSE pc' = "x_start" /\ UNCHANGED <<jsonStr, xerr, strat>>
  /\ UNCHANGED <<text, s, start, end, cvars>>

\* lines 175-181: strategy 3, start and the loop's initialisation
FindStart ==
  /\ pc = "x_start"
  /\ LET st == StartOf(s) IN
       /\ start' = st
       /\ IF st = -1
          THEN Return(<<>>, ErrNoStart, 0) /\ UNCHANGED end
          ELSE /\ end' = FirstEnd(s)
               /\ pc' = "x_scan"
               /\ UNCHANGED <<jsonStr, xerr, strat>>
  /\ UNCHANGED <<text, s, cvars>>

\* lines 181-188: one iteration of the loop
ScanStep ==
  /\ pc = "x_scan"
  /\ end > start
  /\ LET cand == TrimSpace(Slice(s, start, end + 1)) IN
       IF ClosesAt(s, start, end) /\ ValidJSON(cand)
       THEN Return(cand, Nil, 3) /\ UNCHANGED end
       ELSE /\ end' = NextEnd(end)
            /\ UNCHANGED <<pc, jsonStr, xerr, strat>>
  /\ UNCHANGED <<text, s, start, cvars>>

\* line 190: the loop ended without a return
ScanExhausted ==
  /\ pc = "x_scan"
  /\ ~(end > start)
  /\ Return(<<>>, ErrNoSubstring, 0)
  /\ UNCHANGED <<text, s, start, end, cvars>>

TextNext == WholeText \/ FencedBlock \/ FindStart \/ ScanStep \/ ScanExhausted

(***************************************************************************)
(* extractCarJSON (lines 193-291).                                         *)
(***************************************************************************)
\* return nil, err
Fails(e) ==
  /\ err' = e
  /\ clean' = <<>>
  /\ pc' = "done"

\* the call extractJSONFromText(rawText) at line 245 or 275
Call(txt) ==
  /\ text' = txt
  /\ s' = <<>>
  /\ start' = -1
  /\ end' = -1
  /\ jsonStr' = <<>>
  /\ xerr' = Nil
  /\ strat' = 0
  /\ pc' = "x_whole"

\* line 204: the typed parse
TypedParse ==
  /\ pc = "c_typed"
  /\ LET r == UnmarshalTyped(respBytes) IN
       IF r.err
       THEN pc' = "c_generic" /\ branch' = "generic" /\ UNCHANGED apiResp
       ELSE pc' = "c_loop" /\ branch' = "typed" /\ apiResp' = r.val
  /\ UNCHANGED <<respBytes, generic, rawText, clean, err, run, prev, tvars>>

\* lines 206-209: the untyped parse after the typed one failed
GenericParse ==
  /\ pc = "c_generic"
  /\ LET r == UnmarshalMap(respBytes) IN
       IF r.err
       THEN Fails(ErrParse) /\ UNCHANGED generic
       ELSE pc' = "c_walk" /\ generic' = r.val /\ UNCHANGED <<clean, err>>
  /\ UNCHANGED <<respBytes, branch, apiResp, rawText, run, prev, tvars>>

\* lines 240-245: walk(generic) found a text, which is handed on
WalkFound ==
  /\ pc = "c_walk"
  /\ \E found \in WalkOutcomes(generic) :
       /\ rawText' = found
       /\ Call(found)
  /\ UNCHANGED <<respBytes, branch, apiResp, generic, clean, err, run, prev>>

\* lines 240-243: walk(generic) left found empty
WalkEmpty ==
  /\ pc = "c_walk"
  /\ WalkOutcomes(generic) = {}
  /\ Fails(ErrNoTextGeneric)
  /\ UNCHANGED <<respBytes, branch, apiResp, generic, rawText, run, prev, tvars>>

\* lines 257-275: the loops over output and content
TypedLoop ==
  /\ pc = "c_loop"
  /\ LET r == OutputLoop(apiResp, 1) IN
       /\ rawText' = r
       /\ IF r = <<>>
          THEN Fails(ErrNoTextTyped) /\ UNCHANGED tvars
          ELSE Call(r) /\ UNCHANGED <<clean, err>>
  /\ UNCHANGED <<respBytes, branch, apiResp, generic, run, prev>>

\* lines 245-254 and 275-290: after extractJSONFromText returned
Reformat ==
  /\ pc = "x_ret"
  /\ branch \in {"typed", "generic"}
  /\ LET u == UnmarshalAny(jsonStr) IN
       IF xerr # Nil THEN Fails(ErrExtract)
       ELSE IF u.err THEN Fails(ErrInvalid)
       ELSE /\ clean' = MarshalIndent(u.val)
            /\ err' = Nil
            /\ pc' = "done"
  /\ UNCHANGED <<respBytes, branch, apiResp, generic, rawText, run, prev, tvars>>

\* line 141: the handler calls extractCarJSON again on the same response bytes
CallAgain ==
  /\ pc = "done"
  /\ run < MaxRuns
  /\ run' = run + 1
  /\ prev' = [clean |-> clean, err |-> err]
  /\ pc' = "c_typed"
  /\ branch' = "none"
  /\ apiResp' = <<>>
  /\ generic' = NilMap
  /\ rawText' = <<>>
  /\ clean' = <<>>
  /\ err' = Nil
  /\ UNCHANGED <<respBytes, tvars>>

Next ==
  \/ TypedParse
  \/ GenericParse
  \/ WalkFound
  \/ WalkEmpty
  \/ TypedLoop
  \/ TextNext
  \/ Reformat
  \/ CallAgain

CarDefaults ==
  /\ apiResp = <<>>
  /\ generic = NilMap
  /\ rawText = <<>>
  /\ clean = <<>>
  /\ err = Nil
  /\ run = 1
  /\ prev = [clean |-> <<>>, err |-> Nil]

TextDefaults ==
  /\ s = <<>>
  /\ start = -1
  /\ end = -1
  /\ jsonStr = <<>>
  /\ xerr = Nil
  /\ strat = 0

\* extractCarJSON called on an envelope
Init ==
  /\ respBytes \in Envelopes
  /\ pc = "c_typed"
  /\ branch = "none"
  /\ text = <<>>
  /\ CarDefaults
  /\ TextDefaults

Spec == Init /\ [][Next]_vars

\* extractJSONFromText called on its own on a text
TextInit ==
  /\ text \in Texts
  /\ pc = "x_whole"
  /\ respBytes = <<>>
  /\ branch = "alone"
  /\ CarDefaults
  /\ TextDefaults

SpecText == TextInit /\ [][TextNext]_vars

(***************************************************************************)
(* Notions the properties are stated with, defined without the operators   *)
(* of the model they constrain.                                            *)
(***************************************************************************)
\* t without its leading and trailing whitespace
Stripped(t) ==
  LET inked == {i \in DOMAIN t : ~IsSpace(t[i])} IN
    IF inked = {} THEN <<>> ELSE SubSeq(t, SetMin(inked), SetMax(inked))

\* 0-based offset of the first { or [ of t, -1 when there is none
FirstBracket(t) ==
  LET opens == {i \in DOMAIN t : t[i] \in {"{", "["}} IN
    IF opens = {} THEN -1 ELSE SetMin(opens) - 1

\* the 0-based offsets e after st whose byte closes the bracket at st and
\* for which t[st..e] parses
ParsableEnds(t, st) ==
  {e \in (st + 1)..(Len(t) - 1) :
     /\ <<t[st + 1], t[e + 1]>> \in {<<"{", "}">>, <<"[", "]">>}
     /\ ValidJSON(Slice(t, st, e + 1))}

\* the pattern finds a fence in t whose trimmed content parses
FenceParses(t) ==
  FindFence(t).found /\ ValidJSON(Stripped(FindFence(t).inner))

\* the pattern finds a fence in t whose trimmed content does not parse
FenceBroken(t) ==
  FindFence(t).found /\ ~ValidJSON(Stripped(FindFence(t).inner))

\* t holds a valid JSON object that lies wholly outside the fence found
ObjectOutsideFence(t) ==
  LET m == FindFence(t) IN
    \E a \in 0..(Len(t) - 1) : \E b \in a..(Len(t) - 1) :
      /\ t[a + 1] = "{"
      /\ t[b + 1] = "}"
      /\ b < m.from \/ a >= m.to
      /\ ValidJSON(Slice(t, a, b + 1))

\* as ObjectOutsideFence, the object beginning at the first bracket of t
ObjectAtFirstBracket(t) ==
  LET m == FindFence(t)
      a == FirstBracket(t)
  IN /\ a # -1
     /\ t[a + 1] = "{"
     /\ \E b \in a..(Len(t) - 1) :
          /\ t[b + 1] = "}"
          /\ b < m.from \/ a >= m.to
          /\ ValidJSON(Slice(t, a, b + 1))

(***************************************************************************)
(* Properties of extractJSONFromText, checked under SpecText.              *)
(***************************************************************************)
\* C2 (as claimed): a successful return is a JSON object or array, and a text
\* with no { and no [ returns an error.
CandidateIsObjectOrArray ==
  pc = "x_ret" =>
    /\ xerr = Nil => jsonStr # <<>> /\ jsonStr[1] \in {"{", "["}
    /\ FirstBracket(text) = -1 => xerr # Nil

\* C3 (as claimed): a text with a fence whose content is not JSON and a valid
\* JSON object anywhere outside the fence is resolved by bracket matching.
FenceFallthroughAnywhere ==
  LET t == Stripped(text) IN
    (pc = "x_ret" /\ FenceBroken(t) /\ ObjectOutsideFence(t)) =>
      (xerr = Nil /\ strat = 3 /\ ValidJSON(jsonStr))

\* C3 (amended): a text that is not JSON as a whole, with a fence whose content
\* is not JSON and a valid JSON object outside the fence that begins at the
\* first { or [ of the trimmed text, is resolved by bracket matching and the
\* result is valid JSON.
FenceFallthrough ==
  LET t == Stripped(text) IN
    (pc = "x_ret" /\ ~ValidJSON(t) /\ FenceBroken(t) /\ ObjectAtFirstBracket(t))
      => (xerr = Nil /\ strat = 3 /\ ValidJSON(jsonStr))

FenceFallthroughReached ==
  LET t == Stripped(text) IN
    /\ pc = "x_ret"
    /\ ~ValidJSON(t)
    /\ FenceBroken(t)
    /\ ObjectAtFirstBracket(t)
    /\ strat = 3

\* C7: when the whole text and the fence both fail, the return is the span from
\* the first { or [ to the largest end whose byte closes that bracket and whose
\* span parses; the error is returned only when there is no such end.
GreedyBracketSelection ==
  LET t == Stripped(text)
      st == FirstBracket(t)
      ends == ParsableEnds(t, st)
  IN (pc = "x_ret" /\ ~ValidJSON(t) /\ ~FenceParses(t)) =>
       IF st # -1 /\ ends # {}
       THEN xerr = Nil /\ jsonStr = Slice(t, st, SetMax(ends) + 1)
       ELSE xerr # Nil /\ jsonStr = <<>>

\* a return by bracket matching after a longer span with a closing bracket
\* failed to parse
GreedyRetryReached ==
  LET t == Stripped(text)
      st == FirstBracket(t)
  IN /\ pc = "x_ret"
     /\ strat = 3
     /\ st > 0
     /\ \E e \in (st + Len(jsonStr))..(Len(t) - 1) : t[e + 1] = t[st + Len(jsonStr)]

\* C8: a text that parses as a whole after trimming is returned whole, and the
\* later strategies are reached only after the earlier ones failed.
WholeTextFirst ==
  LET t == Stripped(text) IN
    /\ (pc = "x_ret" /\ ValidJSON(t)) => (jsonStr = t /\ xerr = Nil /\ strat = 1)
    /\ pc \in {"x_fence", "x_start", "x_scan"} => ~ValidJSON(t)
    /\ strat = 2 => ~ValidJSON(t)
    /\ (pc \in {"x_start", "x_scan"} \/ strat = 3) =>
         (~ValidJSON(t) /\ ~FenceParses(t))

\* a whole-text return for a text with whitespace around it and a fenced block
\* of valid JSON inside it
WholeTextFirstReached ==
  /\ pc = "x_ret"
  /\ strat = 1
  /\ text # Stripped(text)
  /\ FenceParses(Stripped(text))
  /\ jsonStr # Stripped(FindFence(Stripped(text)).inner)

\* C10: after a fence whose content is not JSON, bracket matching runs over the
\* whole trimmed text: it starts at the text's first { or [, its ends run down
\* from the text's last byte, and what it returns begins at that first bracket.
BrokenFenceSearchesWholeText ==
  LET t == Stripped(text)
      st == FirstBracket(t)
  IN (~ValidJSON(t) /\ FenceBroken(t)) =>
       /\ pc = "x_scan" =>
            /\ s = t
            /\ start = st
            /\ end <= Len(t) - 1
            /\ \A e \in (end + 1)..(Len(t) - 1) : e \notin ParsableEnds(t, st)
       /\ (pc = "x_ret" /\ strat = 3) =>
            jsonStr = Slice(t, st, st + Len(jsonStr))

\* the value returned lies before the broken fence although a bracket follows
\* the fence
ValueBeforeFenceReached ==
  LET t == Stripped(text)
      m == FindFence(t)
  IN /\ pc = "x_ret"
     /\ strat = 3
     /\ FenceBroken(t)
     /\ FirstBracket(t) + Len(jsonStr) <= m.from
     /\ \E i \in (m.to + 1)..Len(t) : t[i] \in {"{", "["}

(***************************************************************************)
(* Properties of extractCarJSON, checked under Spec.                       *)
(***************************************************************************)
\* the syntax tree of the envelope (NoVal when the bytes are not JSON)
EnvelopeTree == ScanDocument(respBytes).val

\* the keys of the top-level object of the envelope
TopKeys ==
  IF EnvelopeTree.t = "obj"
  THEN {EnvelopeTree.v[n][1] : n \in DOMAIN EnvelopeTree.v}
  ELSE {}

\* the strings a search of the whole envelope for a key text with a non-blank
\* string value can find
TextsInEnvelope == WalkOutcomes(ToGo(EnvelopeTree))

\* C1 (as claimed): an envelope that is a JSON object without the output shape
\* and holds somewhere a key text with a non-blank string has that string
\* located; it does not end in a no-text error.
GenericSearchFindsText ==
  (/\ pc = "done"
   /\ EnvelopeTree.t = "obj"
   /\ KOutput \notin TopKeys
   /\ TextsInEnvelope # {})
    => (rawText \in TextsInEnvelope /\ err \notin {ErrNoTextTyped, ErrNoTextGeneric})

\* C4 (as claimed): a second run of extractCarJSON on the same envelope bytes
\* returns what the first returned.
RunsAgree ==
  (pc = "done" /\ run > 1) => (clean = prev.clean /\ err = prev.err)

\* C5 (as claimed): the parse error is returned only for bytes that are not
\* valid JSON.
UnreadableOnlyIfNotJSON ==
  (pc = "done" /\ err = ErrParse) => ~ValidJSON(respBytes)

\* a proper prefix, or smaller at the first byte that differs
ByteLess(a, b) ==
  \E i \in 1..(Len(b)) :
    /\ \A j \in 1..(i - 1) : j <= Len(a) /\ a[j] = b[j]
    /\ i > Len(a) \/ (i - 1 < Len(a) /\ Code(a[i]) < Code(b[i]))

\* every object of syntax tree x lists its members in ascending key order
RECURSIVE MembersAscend(_)
MembersAscend(x) ==
  IF x.t = "obj"
  THEN /\ \A n \in DOMAIN x.v : MembersAscend(x.v[n][2])
       /\ \A n \in DOMAIN x.v : \A m \in DOMAIN x.v :
            n < m => ByteLess(x.v[n][1], x.v[m][1])
  ELSE IF x.t = "arr" THEN \A n \in DOMAIN x.v : MembersAscend(x.v[n])
  ELSE TRUE

\* C6 (as claimed): the returned bytes list the members of every object in the
\* order of the candidate text; only whitespace differs.
MemberOrderKept ==
  (pc = "done" /\ err = Nil) =>
    ScanDocument(clean).val = ScanDocument(jsonStr).val

\* C6 (amended): the returned bytes are valid JSON denoting the value of the
\* candidate, with the members of every object in ascending byte order of their
\* keys, whatever their order in the candidate; array elements keep their order.
MembersSortedByKey ==
  (pc = "done" /\ err = Nil) =>
    /\ ValidJSON(clean)
    /\ ToGo(ScanDocument(clean).val) = ToGo(ScanDocument(jsonStr).val)
    /\ MembersAscend(ScanDocument(clean).val)

\* a return whose member order differs from the candidate's
MembersReorderedReached ==
  /\ pc = "done"
  /\ err = Nil
  /\ ScanDocument(clean).val.t = "obj"
  /\ ScanDocument(clean).val # ScanDocument(jsonStr).val

\* the (item, part) positions of apiResp whose text is non-blank
TextPositions ==
  {p \in UNION {{<<i, j>> : j \in DOMAIN apiResp[i].Content} : i \in DOMAIN apiResp} :
     Stripped(apiResp[p[1]].Content[p[2]].Text) # <<>>}

FirstTextPosition ==
  CHOOSE p \in TextPositions :
    \A o \in TextPositions : p[1] < o[1] \/ (p[1] = o[1] /\ p[2] <= o[2])

\* C9: on the typed path, when some content part has a non-blank text, the
\* fragment handed on is the text of the first such part in item order then
\* part order, and the no-text error is not returned.
TypedPathTakesFirstText ==
  (branch = "typed" /\ pc # "c_loop" /\ TextPositions # {}) =>
    /\ rawText = apiResp[FirstTextPosition[1]].Content[FirstTextPosition[2]].Text
    /\ err # ErrNoTextTyped

\* the first text sits in a later item and a later part: an item and a part
\* before it were skipped
TypedPathSkipReached ==
  /\ branch = "typed"
  /\ pc = "done"
  /\ TextPositions # {}
  /\ FirstTextPosition[1] > 1
  /\ FirstTextPosition[2] > 1
  /\ err = Nil

=============================================================================
